---- MODULE Spec2Model ----
(***************************************************************************)
(* Model of infra_hex_py: the package import (__init__.py), the Jenks      *)
(* natural-breaks solver jenks_breaks and the per-feature style_function   *)
(* of create_hex_grid_map (viz.py).                                        *)
(*                                                                         *)
(* Arithmetic.  The code accumulates variances in 64-bit floats.  The      *)
(* model computes them exactly: every variance is held multiplied by       *)
(* Scale(n) = n!, which is divisible by every segment count 1..n, so that  *)
(* running_sum_squares - running_sum^2 / segment_count is an integer.      *)
(* Opacity and weight are held as fractions <<numerator, denominator>>.    *)
(* numpy indexing is modelled with its wrap-around of negative indices     *)
(* and its IndexError for indices out of range.                            *)
(***************************************************************************)
EXTENDS Integers, Sequences, FiniteSets

VARIABLES
    numpy_installed,      \* environment: `import numpy` succeeds
    viz_deps_installed,   \* environment: `import branca, folium` succeeds
    pc,                   \* position of the program
    pkg_all,              \* infra_hex_py.__all__
    pkg_names,            \* names bound in the infra_hex_py namespace
    viz_loaded,           \* infra_hex_py.viz was imported successfully
    HAS_VIZ_DEPS,         \* viz.HAS_VIZ_DEPS
    caller,               \* who called jenks_breaks
    data,                 \* argument data of jenks_breaks
    n_classes,            \* argument n_classes of jenks_breaks
    sorted_values,        \* viz.py:33
    class_start_index,    \* viz.py:42
    min_within_class_variance, \* viz.py:43
    end_idx,              \* outer loop variable, viz.py:46
    segment_len,          \* inner loop variable, viz.py:52 (= segment_count)
    running_sum,          \* viz.py:48
    running_sum_squares,  \* viz.py:49
    breaks,               \* viz.py:81
    backtrack_end,        \* viz.py:82
    class_idx,            \* backtracking loop variable, viz.py:83
    starts,               \* the values start_idx took, viz.py:84, oldest first
    outcome,              \* how jenks_breaks ended
    result,               \* the list jenks_breaks returned
    min_val,              \* viz.py:153
    max_val,              \* viz.py:154
    styles,               \* the dicts style_function returned, in feature order
    map_result            \* how create_hex_grid_map ended

vars == <<numpy_installed, viz_deps_installed, pc, pkg_all, pkg_names,
          viz_loaded, HAS_VIZ_DEPS, caller, data, n_classes, sorted_values,
          class_start_index, min_within_class_variance, end_idx, segment_len,
          running_sum, running_sum_squares, breaks, backtrack_end, class_idx,
          starts, outcome, result, min_val, max_val, styles, map_result>>

jenksVars == <<data, n_classes, sorted_values, class_start_index,
               min_within_class_variance, end_idx, segment_len, running_sum,
               running_sum_squares, breaks, backtrack_end, class_idx,
               starts, outcome, result>>

importVars == <<numpy_installed, viz_deps_installed, pkg_all, pkg_names,
                viz_loaded, HAS_VIZ_DEPS>>

-----------------------------------------------------------------------------
(* Bounds of the enumerated inputs *)

MaxLen == 4
MaxVal == 2
MaxK == 3

KValues == (0 - 2)..MaxK

RECURSIVE SeqsUpTo(_)
SeqsUpTo(len) ==
    IF len = 0 THEN {<< >>}
    ELSE LET shorter == SeqsUpTo(len - 1)
         IN  shorter \cup {Append(s, v) : s \in {t \in shorter : Len(t) = len - 1},
                                          v \in 0..MaxVal}

\* The two concrete scenarios of the specification, section 8.
Scenarios == { <<(<<1, 2, 3, 10, 11, 12, 50>>), 3>>, <<(<<5, 5, 5, 5>>), 5>> }

Inputs == (SeqsUpTo(MaxLen) \X KValues) \cup Scenarios

-----------------------------------------------------------------------------
(* Python and numpy primitives *)

NoTable == [c \in {} |-> 0]

Inf == 2000000000

Add(a, b) == IF a = Inf \/ b = Inf THEN Inf ELSE a + b

RECURSIVE Factorial(_)
Factorial(n) == IF n <= 1 THEN 1 ELSE n * Factorial(n - 1)

Scale(n) == Factorial(n)

\* a valid index of an axis of the given size
InRange(i, size) == (0 - size) <= i /\ i < size

\* negative indices count from the end
Norm(i, size) == IF i < 0 THEN i + size ELSE i

\* sorted_values[i] with a 0-based Python index
At(sv, i) == sv[Norm(i, Len(sv)) + 1]

RECURSIVE Insert(_, _)
Insert(s, v) ==
    IF s = << >> THEN <<v>>
    ELSE IF v < Head(s) THEN <<v>> \o s
    ELSE <<Head(s)>> \o Insert(Tail(s), v)

RECURSIVE Sorted(_)
Sorted(s) == IF s = << >> THEN << >> ELSE Insert(Sorted(Tail(s)), Head(s))

Elems(s) == {s[i] : i \in 1..Len(s)}

SetMin(S) == CHOOSE x \in S : \A y \in S : x <= y
SetMax(S) == CHOOSE x \in S : \A y \in S : y <= x

RECURSIVE SetToSorted(_)
SetToSorted(S) ==
    IF S = {} THEN << >>
    ELSE LET m == SetMin(S) IN <<m>> \o SetToSorted(S \ {m})

-----------------------------------------------------------------------------
(* Package import: python/infra_hex_py/__init__.py and the top of viz.py *)

\* the names a successful import of viz.py leaves in its namespace
VizNamespace ==
    {"List", "Optional", "np", "cm", "folium", "HAS_VIZ_DEPS",
     "jenks_breaks", "PALETTES", "create_hex_grid_map"}

\* __init__.py:2 and :4
BaseNames == <<"get_hex_summary", "get_hex_summary_polygon_area">>

\* the names of the from-import, in the order of the statement, __init__.py:8
ImportedNames == <<"PALETTES", "create_choropleth_map", "jenks_breaks">>

\* __init__.py:10
ExtendNames == <<"jenks_breaks", "create_choropleth_map", "PALETTES">>

\* `from module import a, b, c` binds the names one after the other and raises
\* ImportError at the first name the module does not define.
RECURSIVE FromImport(_, _, _)
FromImport(namespace, names, bound) ==
    IF names = << >> THEN [ok |-> TRUE, bound |-> bound]
    ELSE IF Head(names) \notin namespace THEN [ok |-> FALSE, bound |-> bound]
    ELSE FromImport(namespace, Tail(names), bound \cup {Head(names)})

Init ==
    /\ numpy_installed \in BOOLEAN
    /\ viz_deps_installed \in BOOLEAN
    /\ pc = "start"
    /\ pkg_all = << >>
    /\ pkg_names = {}
    /\ viz_loaded = FALSE
    /\ HAS_VIZ_DEPS = FALSE
    /\ caller = "none"
    /\ data = << >>
    /\ n_classes = 0
    /\ sorted_values = << >>
    /\ class_start_index = NoTable
    /\ min_within_class_variance = NoTable
    /\ end_idx = 0
    /\ segment_len = 0
    /\ running_sum = 0
    /\ running_sum_squares = 0
    /\ breaks = << >>
    /\ backtrack_end = 0
    /\ class_idx = 0
    /\ starts = << >>
    /\ outcome = "none"
    /\ result = << >>
    /\ min_val = 0
    /\ max_val = 0
    /\ styles = << >>
    /\ map_result = "none"

\* `import infra_hex_py`: __init__.py:1-12 with viz.py:1-15
ImportPackage ==
    /\ pc = "start"
    /\ pc' = "idle"
    /\ IF ~numpy_installed
       THEN \* viz.py:5 raises ImportError, caught at __init__.py:11
            /\ viz_loaded' = FALSE
            /\ HAS_VIZ_DEPS' = FALSE
            /\ pkg_names' = Elems(BaseNames)
            /\ pkg_all' = BaseNames
       ELSE LET r == FromImport(VizNamespace, ImportedNames, {})
            IN  /\ viz_loaded' = TRUE
                /\ HAS_VIZ_DEPS' = viz_deps_installed
                /\ pkg_names' = Elems(BaseNames) \cup {"viz"} \cup r.bound
                /\ pkg_all' = IF r.ok THEN BaseNames \o ExtendNames ELSE BaseNames
    /\ UNCHANGED <<numpy_installed, viz_deps_installed, caller, min_val, max_val,
                   styles, map_result>>
    /\ UNCHANGED jenksVars

-----------------------------------------------------------------------------
(* jenks_breaks, viz.py:19-91 *)

\* the comparison of viz.py:36 turned around
PassthroughFlipped(n_values, k) == n_values >= k

\* viz.py:36
Passthrough(n_values, k) == n_values <= k

\* viz.py:42, np.zeros((n_values + 1, n_classes + 1))
ZeroTable(n_values, k) == [c \in (0..n_values) \X (0..k) |-> 0]

\* viz.py:43-44, np.full(..., np.inf) and the base case [1, 1] = 0
BaseVariance(n_values, k) ==
    [c \in (0..n_values) \X (0..k) |-> IF c = <<1, 1>> THEN 0 ELSE Inf]

\* viz.py:64-66 with the running sum not squared
SegmentVarianceNoSquare(sum_squares, sum, count, scale) ==
    scale * sum_squares - (scale \div count) * sum

\* viz.py:64-66, times scale
SegmentVariance(sum_squares, sum, count, scale) ==
    scale * sum_squares - (scale \div count) * (sum * sum)

\* viz.py:70-73
Candidate(segment_variance, table, segment_start, j) ==
    Add(segment_variance, table[<<segment_start - 1, j - 1>>])

\* viz.py:74 with > for >=
AcceptStrict(best, candidate) == best > candidate

\* viz.py:74
Accept(best, candidate) == best >= candidate

\* viz.py:85 taking the value below the class start
BreakIndexBelow(start) == start - 2

\* viz.py:85
BreakIndex(start) == start - 1

\* viz.py:87 without the step below the class start
NextBacktrackEndSame(start) == start

\* viz.py:87
NextBacktrackEnd(start) == start - 1

\* viz.py:91, sorted(set(breaks))
SortedSet(bs) == SetToSorted(Elems(bs))

\* viz.py:89-91 without the append of the minimum
FinalBreaksNoMin(bs, sv) == SortedSet(bs)

\* viz.py:89-91
FinalBreaks(bs, sv) == SortedSet(Append(bs, At(sv, 0)))

\* jenks_breaks returns value to its caller
JenksReturns(who, value) ==
    /\ outcome' = "returned"
    /\ result' = value
    /\ pc' = IF who = "map" THEN "styling" ELSE "done"
    /\ map_result' = map_result

\* jenks_breaks raises err, which create_hex_grid_map does not catch
JenksRaises(who, err) ==
    /\ outcome' = err
    /\ result' = << >>
    /\ pc' = "done"
    /\ map_result' = IF who = "map" THEN err ELSE map_result

\* viz.py:33-50: sort, passthrough, allocation of the tables, entry of the loops
\* (running_sum and running_sum_squares are still 0 from Init)
JenksEntry(d, k, who) ==
    LET sv == Sorted(d)
        n_values == Len(sv)
    IN  /\ data' = d
        /\ n_classes' = k
        /\ sorted_values' = sv
        /\ UNCHANGED <<running_sum, running_sum_squares, breaks,
                       backtrack_end, class_idx, starts>>
        /\ IF Passthrough(n_values, k)
           THEN /\ JenksReturns(who, sv)
                /\ UNCHANGED <<class_start_index, min_within_class_variance, end_idx,
                               segment_len>>
           ELSE IF k + 1 < 0
           THEN \* np.zeros: negative dimensions are not allowed
                /\ JenksRaises(who, "ValueError")
                /\ UNCHANGED <<class_start_index, min_within_class_variance, end_idx,
                               segment_len>>
           ELSE IF ~(InRange(1, n_values + 1) /\ InRange(1, k + 1))
           THEN \* min_within_class_variance[1, 1] = 0 is out of bounds
                /\ JenksRaises(who, "IndexError")
                /\ class_start_index' = ZeroTable(n_values, k)
                /\ min_within_class_variance' =
                       [c \in (0..n_values) \X (0..k) |-> Inf]
                /\ UNCHANGED <<end_idx, segment_len>>
           ELSE /\ class_start_index' = ZeroTable(n_values, k)
                /\ min_within_class_variance' = BaseVariance(n_values, k)
                /\ outcome' = "running"
                /\ result' = << >>
                /\ map_result' = map_result
                /\ end_idx' = 2
                /\ segment_len' = 1
                /\ pc' = IF 2 <= n_values THEN "dp_inner" ELSE "backtrack_init"

\* a direct call jenks_breaks(data, n_classes), as in examples/streamlit_app.py:90
CallJenksBreaks ==
    /\ pc = "idle"
    /\ viz_loaded
    /\ \E in \in Inputs :
          /\ caller' = "direct"
          /\ JenksEntry(in[1], in[2], "direct")
    /\ UNCHANGED <<min_val, max_val, styles>>
    /\ UNCHANGED importVars

\* viz.py:46-79: one iteration of the inner loop, with its loop over class_idx
\* and, after the last one, the head of the next iteration of the outer loop.
\* The loop over class_idx writes row end_idx and reads row segment_start - 1,
\* which is a different row, so its iterations are independent.
DPInner ==
    /\ pc = "dp_inner"
    /\ LET n_values == Len(sorted_values)
           segment_start == end_idx - segment_len + 1
           value == At(sorted_values, segment_start - 1)
           sum_squares == running_sum_squares + value * value
           sum == running_sum + value
           segment_variance ==
               SegmentVariance(sum_squares, sum, segment_len, Scale(n_values))
           cand(j) == Candidate(segment_variance, min_within_class_variance,
                                segment_start, j)
           takes(j) == /\ segment_start > 1
                       /\ j \in 2..n_classes
                       /\ Accept(min_within_class_variance[<<end_idx, j>>], cand(j))
       IN  /\ class_start_index' =
                  [c \in DOMAIN class_start_index |->
                      IF c[1] # end_idx THEN class_start_index[c]
                      ELSE IF c[2] = 1 THEN 1
                      ELSE IF takes(c[2]) THEN segment_start
                      ELSE class_start_index[c]]
           /\ min_within_class_variance' =
                  [c \in DOMAIN min_within_class_variance |->
                      IF c[1] # end_idx THEN min_within_class_variance[c]
                      ELSE IF c[2] = 1 THEN segment_variance
                      ELSE IF takes(c[2]) THEN cand(c[2])
                      ELSE min_within_class_variance[c]]
           /\ IF segment_len < end_idx
              THEN /\ running_sum_squares' = sum_squares
                   /\ running_sum' = sum
                   /\ segment_len' = segment_len + 1
                   /\ UNCHANGED <<end_idx, pc>>
              ELSE IF end_idx < n_values
              THEN /\ running_sum_squares' = 0
                   /\ running_sum' = 0
                   /\ segment_len' = 1
                   /\ end_idx' = end_idx + 1
                   /\ UNCHANGED pc
              ELSE /\ running_sum_squares' = sum_squares
                   /\ running_sum' = sum
                   /\ UNCHANGED segment_len
                   /\ end_idx' = end_idx + 1
                   /\ pc' = "backtrack_init"
    /\ UNCHANGED <<caller, data, n_classes, sorted_values, breaks, backtrack_end,
                   class_idx, starts, outcome, result, min_val, max_val,
                   styles, map_result>>
    /\ UNCHANGED importVars

\* viz.py:81-83: the first break and the entry of the backtracking loop
InitBacktrack ==
    /\ pc = "backtrack_init"
    /\ IF ~InRange(0 - 1, Len(sorted_values))
       THEN /\ JenksRaises(caller, "IndexError")
            /\ UNCHANGED <<breaks, backtrack_end, class_idx>>
       ELSE /\ breaks' = <<At(sorted_values, 0 - 1)>>
            /\ backtrack_end' = Len(sorted_values)
            /\ class_idx' = n_classes
            /\ pc' = IF n_classes > 1 THEN "backtrack" ELSE "finish"
            /\ UNCHANGED <<outcome, result, map_result>>
    /\ UNCHANGED <<caller, data, n_classes, sorted_values, class_start_index,
                   min_within_class_variance, end_idx, segment_len, running_sum,
                   running_sum_squares, starts, min_val, max_val, styles>>
    /\ UNCHANGED importVars

\* viz.py:83-87: one iteration of the backtracking loop
BacktrackStep ==
    /\ pc = "backtrack"
    /\ LET n_values == Len(sorted_values)
           row == Norm(backtrack_end, n_values + 1)
           col == Norm(class_idx, n_classes + 1)
           start == class_start_index[<<row, col>>]
       IN  IF ~(InRange(backtrack_end, n_values + 1) /\ InRange(class_idx, n_classes + 1))
           THEN /\ JenksRaises(caller, "IndexError")
                /\ UNCHANGED <<breaks, backtrack_end, class_idx, starts>>
           ELSE IF ~InRange(BreakIndex(start), n_values)
           THEN /\ JenksRaises(caller, "IndexError")
                /\ starts' = Append(starts, start)
                /\ UNCHANGED <<breaks, backtrack_end, class_idx>>
           ELSE /\ starts' = Append(starts, start)
                /\ breaks' = Append(breaks, At(sorted_values, BreakIndex(start)))
                /\ backtrack_end' = NextBacktrackEnd(start)
                /\ class_idx' = class_idx - 1
                /\ pc' = IF class_idx - 1 > 1 THEN "backtrack" ELSE "finish"
                /\ UNCHANGED <<outcome, result, map_result>>
    /\ UNCHANGED <<caller, data, n_classes, sorted_values, class_start_index,
                   min_within_class_variance, end_idx, segment_len, running_sum,
                   running_sum_squares, min_val, max_val, styles>>
    /\ UNCHANGED importVars

\* viz.py:89-91: append the minimum, de-duplicate, sort, return
Finish ==
    /\ pc = "finish"
    /\ IF ~InRange(0, Len(sorted_values))
       THEN /\ JenksRaises(caller, "IndexError")
            /\ UNCHANGED breaks
       ELSE /\ breaks' = Append(breaks, At(sorted_values, 0))
            /\ JenksReturns(caller, FinalBreaks(breaks, sorted_values))
    /\ UNCHANGED <<caller, data, n_classes, sorted_values, class_start_index,
                   min_within_class_variance, end_idx, segment_len, running_sum,
                   running_sum_squares, backtrack_end, class_idx, starts,
                   min_val, max_val, styles>>
    /\ UNCHANGED importVars

-----------------------------------------------------------------------------
(* create_hex_grid_map and its style_function, viz.py:104-191 *)

\* viz.py:167 measuring from the maximum
RatioInverted(value, lo, hi) == IF hi > lo THEN <<hi - value, hi - lo>> ELSE <<0, 1>>

\* viz.py:167, as a fraction
Ratio(value, lo, hi) == IF hi > lo THEN <<value - lo, hi - lo>> ELSE <<0, 1>>

\* viz.py:168, 0.4 + ratio * 0.5 as a fraction
Opacity(ratio) == <<4 * ratio[2] + 5 * ratio[1], 10 * ratio[2]>>

\* viz.py:169, 0.3 + ratio * 1.2 as a fraction
Weight(ratio) == <<3 * ratio[2] + 12 * ratio[1], 10 * ratio[2]>>

\* viz.py:165-175; fillColor is the lookup of branca's StepColormap, a library
\* outside the repository, and is left out of the dict
StyleFunction(value, lo, hi) ==
    [color |-> "#555",
     weight |-> Weight(Ratio(value, lo, hi)),
     fillOpacity |-> Opacity(Ratio(value, lo, hi))]

\* viz.py:128-155: create_hex_grid_map(gdf, n_classes=...) up to and including
\* the first lines of its call of jenks_breaks
CreateHexGridMap ==
    /\ pc = "idle"
    /\ viz_loaded
    /\ \E in \in Inputs :
          /\ caller' = "map"
          /\ IF ~HAS_VIZ_DEPS
             THEN /\ map_result' = "ImportError"
                  /\ pc' = "done"
                  /\ UNCHANGED <<min_val, max_val>>
                  /\ UNCHANGED jenksVars
             ELSE IF Len(in[1]) = 0
             THEN /\ map_result' = "map"
                  /\ pc' = "done"
                  /\ UNCHANGED <<min_val, max_val>>
                  /\ UNCHANGED jenksVars
             ELSE /\ min_val' = SetMin(Elems(in[1]))
                  /\ max_val' = SetMax(Elems(in[1]))
                  /\ JenksEntry(in[1], in[2], "map")
    /\ UNCHANGED styles
    /\ UNCHANGED importVars

\* viz.py:157-191: folium calls style_function for the features in order
StyleFeature ==
    /\ pc = "styling"
    /\ LET i == Len(styles) + 1
       IN  /\ styles' = Append(styles, StyleFunction(data[i], min_val, max_val))
           /\ IF i < Len(data)
              THEN UNCHANGED <<pc, map_result>>
              ELSE /\ pc' = "done"
                   /\ map_result' = "map"
    /\ UNCHANGED <<caller, min_val, max_val>>
    /\ UNCHANGED jenksVars
    /\ UNCHANGED importVars

Next ==
    \/ ImportPackage
    \/ CallJenksBreaks
    \/ CreateHexGridMap
    \/ DPInner
    \/ InitBacktrack
    \/ BacktrackStep
    \/ Finish
    \/ StyleFeature

Spec == Init /\ [][Next]_vars

-----------------------------------------------------------------------------
(* Reference definitions for the properties *)

Last(s) == s[Len(s)]

RECURSIVE SumRange(_, _, _)
\* f[lo] + ... + f[hi]
SumRange(f, lo, hi) == IF lo > hi THEN 0 ELSE f[lo] + SumRange(f, lo + 1, hi)

RECURSIVE SumSquares(_, _, _)
\* f[lo]^2 + ... + f[hi]^2
SumSquares(f, lo, hi) ==
    IF lo > hi THEN 0 ELSE f[lo] * f[lo] + SumSquares(f, lo + 1, hi)

\* scale times the sum of squared deviations of sv[lo..hi] from their mean
ClassSSD(sv, lo, hi, scale) ==
    LET s == SumRange(sv, lo, hi)
    IN  scale * SumSquares(sv, lo, hi) - (scale * s * s) \div (hi - lo + 1)

\* A partition of 1..n into k contiguous non-empty classes is the set of the
\* start indices of its classes 2..k.
Partitions(n, k) == {S \in SUBSET (2..n) : Cardinality(S) = k - 1}

RECURSIVE PartitionCost(_, _, _, _)
\* the classes of 1..hi whose starts are 1 and the members of S
PartitionCost(sv, S, hi, scale) ==
    IF S = {} THEN ClassSSD(sv, 1, hi, scale)
    ELSE LET s == SetMax(S)
         IN  ClassSSD(sv, s, hi, scale) + PartitionCost(sv, S \ {s}, s - 1, scale)

MinPartitionCost(sv, k, scale) ==
    SetMin({PartitionCost(sv, S, Len(sv), scale) : S \in Partitions(Len(sv), k)})

\* jenks_breaks went through the dynamic program and the backtracking
DPCompleted ==
    /\ outcome = "returned"
    /\ Len(sorted_values) > n_classes

ValidCall == data # << >> /\ n_classes >= 1

\* the candidate totals of cell (i, j): class j starts at s, classes 1..j-1
\* cover 1..s-1 at the cost the table holds for them
CandidateTotal(i, j, s) ==
    Add(ClassSSD(sorted_values, s, i, Scale(Len(sorted_values))),
        min_within_class_variance[<<s - 1, j - 1>>])

\* the segment starts of cell (i, j) whose candidate total is the least
BestStarts(i, j) ==
    LET total == [s \in j..i |-> CandidateTotal(i, j, s)]
    IN  {s \in j..i : \A t \in j..i : total[s] <= total[t]}

\* the cells of the table whose scan is over and which a partition exists for
FinishedCells ==
    {c \in DOMAIN class_start_index :
        /\ c[2] >= 2 /\ c[2] <= c[1] /\ c[1] < end_idx
        /\ outcome \in {"running", "returned"}}

FracLeq(a, b) == a[1] * b[2] <= b[1] * a[2]

ScenarioClusters == <<1, 2, 3, 10, 11, 12, 50>>

-----------------------------------------------------------------------------
(* Properties *)

\* C1: for n > k >= 1 the dynamic program finds the least total within-class
\* sum of squared deviations over all partitions of the sorted values into k
\* contiguous non-empty classes: min_within_class_variance[n, k] is that
\* minimum, and the class starts recovered by backtracking are k - 1 distinct
\* indices in 2..n, in descending order, whose partition costs that minimum.
C1_OptimalPartition ==
    (DPCompleted /\ n_classes >= 1) =>
        LET n == Len(sorted_values)
            scale == Scale(n)
            best == MinPartitionCost(sorted_values, n_classes, scale)
        IN  /\ Len(starts) = n_classes - 1
            /\ Elems(starts) \subseteq 2..n
            /\ \A m \in 1..(Len(starts) - 1) : starts[m + 1] < starts[m]
            /\ min_within_class_variance[<<n, n_classes>>] = best
            /\ PartitionCost(sorted_values, Elems(starts), n, scale) = best

C1_Witness ==
    /\ DPCompleted
    /\ n_classes >= 2
    /\ \E S \in Partitions(Len(sorted_values), n_classes) :
          PartitionCost(sorted_values, S, Len(sorted_values), Scale(Len(sorted_values)))
            > MinPartitionCost(sorted_values, n_classes, Scale(Len(sorted_values)))

\* C2: for a non-empty series and k >= 1 the returned breaks are non-decreasing,
\* start at min(values) and end at max(values), so every value lies within
\* [breaks[0], breaks[-1]].
C2_BoundaryCorrectness ==
    (outcome = "returned" /\ ValidCall) =>
        /\ result # << >>
        /\ \A m \in 1..(Len(result) - 1) : result[m] <= result[m + 1]
        /\ result[1] = SetMin(Elems(data))
        /\ Last(result) = SetMax(Elems(data))
        /\ \A v \in Elems(data) : result[1] <= v /\ v <= Last(result)

C2_Witness ==
    /\ DPCompleted
    /\ Len(result) >= 3
    /\ data # sorted_values

\* C3: whenever len(values) <= k the returned breaks are exactly the distinct
\* values of the input in ascending order, duplicates removed.
C3_PassthroughDistinct ==
    (outcome = "returned" /\ Len(data) <= n_classes) =>
        result = SetToSorted(Elems(data))

\* C4, as claimed: every interior boundary the backtracking emits is the value
\* just below the start of a class (the largest value of the class before it),
\* and the three-cluster scenario returns [1, 3, 12, 50].
C4_BreakBelowClassStart ==
    /\ (pc \in {"backtrack", "finish"} /\ starts # << >>) =>
           Last(breaks) = sorted_values[Last(starts) - 1]
    /\ (DPCompleted /\ data = ScenarioClusters /\ n_classes = 3) =>
           result = <<1, 3, 12, 50>>

\* C4, amended: every interior boundary the backtracking emits is the value at
\* the start of a class (the smallest value of that class); the result is the
\* minimum, the smallest value of each of the classes 2..k and the maximum,
\* de-duplicated; the three-cluster scenario has the classes {1,2,3},
\* {10,11,12}, {50} and returns [1, 10, 50].
C4_BreakAtClassStart ==
    /\ (pc \in {"backtrack", "finish"} /\ starts # << >>) =>
           Last(breaks) = sorted_values[Last(starts)]
    /\ DPCompleted =>
           Elems(result) = {sorted_values[1], Last(sorted_values)}
                             \cup {sorted_values[s] : s \in Elems(starts)}
    /\ (DPCompleted /\ data = ScenarioClusters /\ n_classes = 3) =>
           /\ starts = <<7, 4>>
           /\ result = <<1, 10, 50>>

C4_Witness ==
    /\ DPCompleted
    /\ data = ScenarioClusters
    /\ n_classes = 3

\* C5: jenks_breaks never returns a list when values is empty or k < 1.
C5_InvalidInputFails ==
    outcome = "returned" => ValidCall

C7_StyleBoundedMonotone ==
    /\ \A i \in 1..Len(styles) :
          /\ min_val <= data[i] /\ data[i] <= max_val
          /\ styles[i].fillOpacity[2] > 0 /\ styles[i].weight[2] > 0
          /\ FracLeq(<<4, 10>>, styles[i].fillOpacity)
          /\ FracLeq(styles[i].fillOpacity, <<9, 10>>)
          /\ FracLeq(<<3, 10>>, styles[i].weight)
          /\ FracLeq(styles[i].weight, <<15, 10>>)
    /\ \A i, j \in 1..Len(styles) :
          data[i] <= data[j] =>
              /\ FracLeq(styles[i].fillOpacity, styles[j].fillOpacity)
              /\ FracLeq(styles[i].weight, styles[j].weight)

C7_Witness ==
    \E i, j \in 1..Len(styles) :
        /\ min_val < data[i] /\ data[i] < data[j] /\ data[j] = max_val
        /\ ~FracLeq(styles[j].fillOpacity, styles[i].fillOpacity)

\* C8: once the package is imported in an environment where the viz module can
\* be imported, jenks_breaks, create_choropleth_map and PALETTES are bound in
\* the package and listed in __all__; __all__ is left at the two base names
\* only when the viz module cannot be imported.
C8_VizReExported ==
    /\ (pc # "start" /\ numpy_installed) =>
           /\ Elems(ExtendNames) \subseteq Elems(pkg_all)
           /\ Elems(ExtendNames) \subseteq pkg_names
    /\ (pc # "start" /\ pkg_all = BaseNames) => ~numpy_installed

\* C9, as claimed: among the segment starts of a cell (i, j) that give the same
\* least total, the first scanned one (the largest) is kept.
C9_FirstFoundKept ==
    \A c \in FinishedCells :
        class_start_index[c] = SetMax(BestStarts(c[1], c[2]))

\* C9, amended: among the segment starts of a cell (i, j) that give the same
\* least total, the last scanned one (the smallest) is kept: a later
\* candidate of equal total overwrites the earlier one.
C9_LastFoundKept ==
    \A c \in FinishedCells :
        class_start_index[c] = SetMin(BestStarts(c[1], c[2]))

C9_Witness ==
    /\ pc = "done"
    /\ \E c \in FinishedCells : Cardinality(BestStarts(c[1], c[2])) >= 2

\* C10: for n > k >= 2 every lookup of the backtracking loop reads a cell with
\* class_idx <= backtrack_end <= n that holds a finite variance and a start
\* with class_idx <= start <= backtrack_end; the recovered starts are strictly
\* decreasing, the start of class j lies in j..n, and no IndexError is raised.
C10_BacktrackInBounds ==
    LET n == Len(sorted_values)
    IN  (n > n_classes /\ n_classes >= 2) =>
            /\ outcome # "IndexError"
            /\ pc = "backtrack" =>
                  /\ 2 <= class_idx /\ class_idx <= backtrack_end
                  /\ backtrack_end <= n
                  /\ min_within_class_variance[<<backtrack_end, class_idx>>] < Inf
                  /\ class_start_index[<<backtrack_end, class_idx>>] >= class_idx
                  /\ class_start_index[<<backtrack_end, class_idx>>] <= backtrack_end
            /\ \A m \in 1..Len(starts) :
                  /\ n_classes - m + 1 <= starts[m] /\ starts[m] <= n
                  /\ m > 1 => starts[m] < starts[m - 1]

C10_Witness ==
    /\ pc = "finish"
    /\ n_classes >= 3
    /\ Len(starts) = n_classes - 1
    /\ Last(starts) = 2

====
